---------------------------- MODULE Spec2Model ----------------------------
(***************************************************************************)
(* A model of the DingTalk web hook client (src/webhook.go): the client's  *)
(* three fields, the shared send path sendPayload with its URL resolution, *)
(* signing and response interpretation, and the five message builders.     *)
(*                                                                         *)
(* Strings are TLA+ strings; a character is a string of length one.  The   *)
(* Go library routines the client calls (strings.Contains, url.Parse,      *)
(* url.ParseQuery, url.Values.Encode, url.QueryEscape, strconv.FormatInt,  *)
(* base64.StdEncoding, regexp matching of regStr, json.Unmarshal into      *)
(* Response) are modelled by what they compute, on the printable ASCII     *)
(* characters the inputs below are drawn from.                             *)
(***************************************************************************)
EXTENDS Integers, Sequences, FiniteSets, TLC

(***************************************************************************)
(* Bounds of the model.                                                    *)
(***************************************************************************)
\* longest mobiles... argument list of SendTextMsg / SendMarkdownMsg
MaxMobiles == 2
\* longest linkTitles / linkUrls argument of SendActionCardMsg
MaxLinks == 2
\* the clock starts at StartMs milliseconds and stops advancing at MaxNowMs
StartMs == 9
MaxNowMs == 10

(***************************************************************************)
(* Strings and bytes.                                                      *)
(***************************************************************************)
At(s, i) == SubSeq(s, i, i)

\* Op applied to the value of v
With(v, Op(_)) == CHOOSE r \in {Op(x) : x \in {v}} : TRUE

Drop(s, n) == SubSeq(s, n + 1, Len(s))

Take(s, n) == SubSeq(s, 1, n)

HasPrefix(s, p) == Len(p) <= Len(s) /\ Take(s, Len(p)) = p

\* strings.Contains(s, substr)
Contains(s, substr) ==
    \E i \in 0..(Len(s) - Len(substr)) : SubSeq(s, i + 1, i + Len(substr)) = substr

\* strings.Index(s, substr), 1-based; 0 when substr does not occur
Index(s, substr) ==
    LET hits == {i \in 1..(Len(s) - Len(substr) + 1) :
                    SubSeq(s, i, i + Len(substr) - 1) = substr}
    IN  IF hits = {} THEN 0 ELSE CHOOSE i \in hits : \A j \in hits : i <= j

\* strings.Cut(s, sep): <<before, after, found>>
Cut(s, sep) ==
    LET i == Index(s, sep)
    IN  IF i = 0 THEN <<s, "", FALSE>>
        ELSE <<Take(s, i - 1), Drop(s, i + Len(sep) - 1), TRUE>>

RECURSIVE Split(_, _)
\* strings.Split(s, sep) for a non-empty sep
Split(s, sep) ==
    LET c == Cut(s, sep)
    IN  IF c[3] THEN <<c[1]>> \o Split(c[2], sep) ELSE <<s>>

\* the printable ASCII characters in code order: codes 32 to 95, and 97 to 126
\* (code 96, the backquote, cannot be written in a string of this language)
PrintableLow ==
    " !\"#$%&'()*+,-./0123456789:;<=>?@ABCDEFGHIJKLMNOPQRSTUVWXYZ[\\]^_"

PrintableHigh == "abcdefghijklmnopqrstuvwxyz{|}~"

\* the characters of a string, as a set
Chars(s) == {At(s, i) : i \in 1..Len(s)}

\* the byte value of each character (printable ASCII, and the line feed)
ByteOf ==
    [c \in Chars(PrintableLow) \cup Chars(PrintableHigh) \cup {"\n"} |->
        IF c = "\n" THEN 10
        ELSE IF c \in Chars(PrintableLow) THEN 31 + Index(PrintableLow, c)
        ELSE 96 + Index(PrintableHigh, c)]

Ord(c) == ByteOf[c]

\* the character of a byte value (printable ASCII, or the line feed)
Chr(n) ==
    IF n = 10 THEN "\n"
    ELSE IF n <= 95 THEN At(PrintableLow, n - 31)
    ELSE At(PrintableHigh, n - 96)

\* []byte(s)
Bytes(s) == [i \in 1..Len(s) |-> Ord(At(s, i))]

Digits == Chars("0123456789")

Letters == Chars("abcdefghijklmnopqrstuvwxyzABCDEFGHIJKLMNOPQRSTUVWXYZ")

HexDigits == Chars("0123456789abcdefABCDEF")

IsDigit(c) == c \in Digits

IsLetter(c) == c \in Letters

IsHex(c) == c \in HexDigits

\* the value of a hexadecimal digit (net/url unhex)
Unhex(c) ==
    IF IsDigit(c) THEN Ord(c) - 48
    ELSE IF c \in Chars("abcdef") THEN Ord(c) - 97 + 10
    ELSE Ord(c) - 65 + 10

RECURSIVE StrLess(_, _)
\* a < b in Go's string order (byte-wise lexicographic)
StrLess(a, b) ==
    IF b = "" THEN FALSE
    ELSE IF a = "" THEN TRUE
    ELSE IF At(a, 1) = At(b, 1) THEN StrLess(Drop(a, 1), Drop(b, 1))
    ELSE Ord(At(a, 1)) < Ord(At(b, 1))

RECURSIVE FormatNat(_)
FormatNat(n) ==
    IF n < 10 THEN At("0123456789", n + 1)
    ELSE FormatNat(n \div 10) \o At("0123456789", (n % 10) + 1)

\* strconv.FormatInt(n, 10), also what fmt's %d prints
FormatInt(n) == IF n < 0 THEN "-" \o FormatNat(0 - n) ELSE FormatNat(n)

RECURSIVE Join(_, _)
\* strings.Join(parts, sep)
Join(parts, sep) ==
    IF Len(parts) = 0 THEN ""
    ELSE IF Len(parts) = 1 THEN parts[1]
    ELSE parts[1] \o sep \o Join(Tail(parts), sep)

(***************************************************************************)
(* net/url, as far as addParamsToURL and http.Post use it.  The inputs     *)
(* carry no user information, port, IPv6 literal or control character, and *)
(* a percent sign only inside a query string, so host and path need        *)
(* neither validation nor escaping.                                        *)
(***************************************************************************)
\* url.QueryEscape keeps these characters; a space becomes "+", every other
\* byte becomes %XX
Unreserved(c) == IsLetter(c) \/ IsDigit(c) \/ c \in Chars("-_.~")

RECURSIVE QueryEscape(_)
QueryEscape(s) ==
    IF s = "" THEN ""
    ELSE LET c == At(s, 1)
             e == IF Unreserved(c) THEN c
                  ELSE IF c = " " THEN "+"
                  ELSE "%" \o At("0123456789ABCDEF", (Ord(c) \div 16) + 1)
                           \o At("0123456789ABCDEF", (Ord(c) % 16) + 1)
         IN  e \o QueryEscape(Drop(s, 1))

RECURSIVE QueryUnescape(_)
\* url.QueryUnescape: [ok, val]; a "%" not followed by two hexadecimal digits
\* is an error
QueryUnescape(s) ==
    IF s = "" THEN [ok |-> TRUE, val |-> ""]
    ELSE LET c == At(s, 1)
         IN  IF c = "%"
             THEN IF Len(s) >= 3 /\ IsHex(At(s, 2)) /\ IsHex(At(s, 3))
                  THEN LET r == QueryUnescape(Drop(s, 3))
                       IN  [ok |-> r.ok,
                            val |-> Chr(16 * Unhex(At(s, 2)) + Unhex(At(s, 3))) \o r.val]
                  ELSE [ok |-> FALSE, val |-> ""]
             ELSE LET r == QueryUnescape(Drop(s, 1))
                  IN  [ok |-> r.ok, val |-> (IF c = "+" THEN " " ELSE c) \o r.val]

\* url.Values: a function from keys to the sequence of the key's values
NoValues == [k \in {} |-> <<>>]

\* Values.Set(key, val)
Set(q, key, val) ==
    [k \in DOMAIN q \cup {key} |-> IF k = key THEN <<val>> ELSE q[k]]

\* m[key] = append(m[key], value)
Add(q, key, val) ==
    [k \in DOMAIN q \cup {key} |->
        IF k = key THEN (IF key \in DOMAIN q THEN Append(q[key], val) ELSE <<val>>)
        ELSE q[k]]

RECURSIVE parseQueryPairs(_, _)
\* the loop of url.ParseQuery over the "&"-separated pairs: an empty pair is
\* skipped, a pair whose key or value does not unescape is skipped (its error
\* is what ParseQuery returns beside the map)
parseQueryPairs(pairs, q) ==
    IF Len(pairs) = 0 THEN q
    ELSE LET kv == Cut(pairs[1], "=")
             k  == QueryUnescape(kv[1])
             v  == QueryUnescape(kv[2])
             q1 == IF pairs[1] = "" \/ ~k.ok \/ ~v.ok THEN q
                   ELSE Add(q, k.val, v.val)
         IN  parseQueryPairs(Tail(pairs), q1)

\* url.ParseQuery(query), the Values it returns (addParamsToURL drops the error)
ParseQuery(query) == parseQueryPairs(Split(query, "&"), NoValues)

RECURSIVE SortedKeys(_)
\* the keys in increasing string order (sort.Strings)
SortedKeys(ks) ==
    IF ks = {} THEN <<>>
    ELSE LET m == CHOOSE k \in ks : \A o \in ks \ {k} : StrLess(k, o)
         IN  <<m>> \o SortedKeys(ks \ {m})

RECURSIVE encodeKey(_, _)
\* one key's values, each as key=value
encodeKey(key, vals) ==
    IF Len(vals) = 0 THEN <<>>
    ELSE <<QueryEscape(key) \o "=" \o QueryEscape(vals[1])>> \o encodeKey(key, Tail(vals))

RECURSIVE encodeKeys(_, _)
encodeKeys(keys, q) ==
    IF Len(keys) = 0 THEN <<>>
    ELSE encodeKey(keys[1], q[keys[1]]) \o encodeKeys(Tail(keys), q)

\* Encode with the keys in decreasing order
EncodeDescending(q) ==
    LET keys == SortedKeys(DOMAIN q)
    IN  Join(encodeKeys([i \in 1..Len(keys) |-> keys[Len(keys) + 1 - i]], q), "&")

\* Values.Encode(): "URL encoded" form, sorted by key
Encode(q) == Join(encodeKeys(SortedKeys(DOMAIN q), q), "&")

\* net/url getScheme: [ok, scheme, rest]
getScheme(rawURL) ==
    LET stops == {i \in 1..Len(rawURL) :
                    ~IsLetter(At(rawURL, i))
                    /\ ~(i > 1 /\ (IsDigit(At(rawURL, i)) \/ At(rawURL, i) \in Chars("+-.")))}
    IN  IF stops = {} THEN [ok |-> TRUE, scheme |-> "", rest |-> rawURL]
        ELSE LET i == CHOOSE j \in stops : \A o \in stops : j <= o
             IN  IF At(rawURL, i) # ":" THEN [ok |-> TRUE, scheme |-> "", rest |-> rawURL]
                 ELSE IF i = 1 THEN [ok |-> FALSE, scheme |-> "", rest |-> ""]
                 ELSE [ok |-> TRUE, scheme |-> Take(rawURL, i - 1), rest |-> Drop(rawURL, i)]

\* the *URL that url.Parse returns with a nil error
URLOf(scheme, opaque, host, path, omitHost, rawQuery, fragment) ==
    [ok |-> TRUE, Scheme |-> scheme, Opaque |-> opaque, Host |-> host, Path |-> path,
     OmitHost |-> omitHost, RawQuery |-> rawQuery, Fragment |-> fragment]

\* url.Parse returned (nil, err)
NilURL == [ok |-> FALSE]

\* url.Parse, after the fragment is cut off and the scheme is split off
parseRest(scheme, rest, rawQuery, fragment) ==
    IF ~HasPrefix(rest, "/") /\ scheme # ""
    THEN URLOf(scheme, rest, "", "", FALSE, rawQuery, fragment)
    ELSE IF ~HasPrefix(rest, "/") /\ Contains(Cut(rest, "/")[1], ":") THEN NilURL
    ELSE IF HasPrefix(rest, "//") /\ (scheme # "" \/ ~HasPrefix(rest, "///"))
    THEN With(Cut(Drop(rest, 2), "/"),
              LAMBDA auth : URLOf(scheme, "", auth[1], IF auth[3] THEN "/" \o auth[2] ELSE "",
                                  FALSE, rawQuery, fragment))
    ELSE URLOf(scheme, "", "", rest, scheme # "" /\ HasPrefix(rest, "/"), rawQuery, fragment)

\* url.Parse(rawURL)
Parse(rawURL) ==
    With(Cut(rawURL, "#"), LAMBDA f :
    With(getScheme(f[1]), LAMBDA sch :
        IF ~sch.ok THEN NilURL
        ELSE With(Cut(sch.rest, "?"), LAMBDA qc :
                  parseRest(sch.scheme, qc[1], qc[2], f[2]))))

\* (*URL).String().  ForceQuery (a URL ending in a bare "?") is left out:
\* addParamsToURL always sets a non-empty RawQuery before it calls String.
String(u) ==
    LET sc   == IF u.Scheme # "" THEN u.Scheme \o ":" ELSE ""
        auth == IF (u.Scheme # "" \/ u.Host # "")
                   /\ ~(u.OmitHost /\ u.Host = "")
                   /\ (u.Host # "" \/ u.Path # "")
                THEN "//" \o u.Host ELSE ""
        sep  == IF u.Path # "" /\ At(u.Path, 1) # "/" /\ u.Host # "" THEN "/" ELSE ""
        dot  == IF sc \o auth \o sep = "" /\ Contains(Cut(u.Path, "/")[1], ":")
                THEN "./" ELSE ""
        body == IF u.Opaque # "" THEN sc \o u.Opaque
                ELSE sc \o auth \o sep \o dot \o u.Path
    IN  body \o (IF u.RawQuery # "" THEN "?" \o u.RawQuery ELSE "")
             \o (IF u.Fragment # "" THEN "#" \o u.Fragment ELSE "")

(***************************************************************************)
(* encoding/base64, crypto/hmac, regexp, encoding/json, net/http.          *)
(***************************************************************************)
B64Std == "ABCDEFGHIJKLMNOPQRSTUVWXYZabcdefghijklmnopqrstuvwxyz0123456789+/"

B64(i) == At(B64Std, i + 1)

RECURSIVE EncodeToString(_)
\* base64.StdEncoding.EncodeToString(bs): three bytes to four characters,
\* padded with "="
EncodeToString(bs) ==
    IF Len(bs) = 0 THEN ""
    ELSE IF Len(bs) = 1
    THEN B64(bs[1] \div 4) \o B64((bs[1] % 4) * 16) \o "=="
    ELSE IF Len(bs) = 2
    THEN B64(bs[1] \div 4) \o B64((bs[1] % 4) * 16 + bs[2] \div 16)
            \o B64((bs[2] % 16) * 4) \o "="
    ELSE B64(bs[1] \div 4) \o B64((bs[1] % 4) * 16 + bs[2] \div 16)
            \o B64((bs[2] % 16) * 4 + bs[3] \div 64) \o B64(bs[3] % 64)
            \o EncodeToString(SubSeq(bs, 4, Len(bs)))

\* hmac.New(sha256.New, key), Write(message), Sum(nil).  SHA-256 is not
\* computed: the digest is the idealised one, a byte string that determines
\* the key and the message (no two pairs collide); no key or message holds a
\* zero byte.
HmacSha256(key, message) == key \o <<0>> \o message

\* one of the three alternatives of the group in regStr:
\* [38][0-9] | 14[57] | 5[^4]
regAlternative(a) ==
    \/ Len(a) = 2 /\ At(a, 1) \in {"3", "8"} /\ IsDigit(At(a, 2))
    \/ Len(a) = 3 /\ Take(a, 2) = "14" /\ At(a, 3) \in {"5", "7"}
    \/ Len(a) = 2 /\ At(a, 1) = "5" /\ At(a, 2) # "4"

\* regPattern.MatchString(mobile) for regStr = ^1([38][0-9]|14[57]|5[^4])\d{8}$
MatchString(mobile) ==
    \E n \in {2, 3} :
        /\ Len(mobile) = 1 + n + 8
        /\ At(mobile, 1) = "1"
        /\ regAlternative(SubSeq(mobile, 2, 1 + n))
        /\ \A i \in (n + 2)..Len(mobile) : IsDigit(At(mobile, i))

\* A response body, by what json.Unmarshal into Response makes of it:
\*   kind "text"   not JSON at all (an HTML page)
\*   kind "null"   the JSON null: no error, the Response keeps its zero values
\*   kind "object" a JSON object; errcode / errmsg are absent ("none"), of the
\*                 field's type ("int" / "string"), or of another JSON type
JSONField(type, n, str) == [type |-> type, n |-> n, str |-> str]

NoField == JSONField("none", 0, "")

BodyOf(kind, errcode, errmsg) == [kind |-> kind, errcode |-> errcode, errmsg |-> errmsg]

\* json.Unmarshal(body, &result): [ok, err, ErrorCode, ErrorMessage]
Unmarshal(body) ==
    IF body.kind = "text"
    THEN [ok |-> FALSE, err |-> "invalid character '<' looking for beginning of value",
          ErrorCode |-> 0, ErrorMessage |-> ""]
    ELSE IF body.kind = "object" /\ body.errcode.type \notin {"none", "int"}
    THEN [ok |-> FALSE,
          err |-> "json: cannot unmarshal string into Go struct field Response.errcode of type int",
          ErrorCode |-> 0, ErrorMessage |-> ""]
    ELSE IF body.kind = "object" /\ body.errmsg.type \notin {"none", "string"}
    THEN [ok |-> FALSE,
          err |-> "json: cannot unmarshal number into Go struct field Response.errmsg of type string",
          ErrorCode |-> IF body.errcode.type = "int" THEN body.errcode.n ELSE 0,
          ErrorMessage |-> ""]
    ELSE [ok |-> TRUE, err |-> "",
          ErrorCode |-> IF body.kind = "object" /\ body.errcode.type = "int"
                        THEN body.errcode.n ELSE 0,
          ErrorMessage |-> IF body.kind = "object" /\ body.errmsg.type = "string"
                           THEN body.errmsg.str ELSE ""]

\* what the network answers to one POST: the call fails (cause), or a response
\* with a status code and a body arrives
NetFailure(cause) ==
    [failed |-> TRUE, cause |-> cause, StatusCode |-> 0, Body |-> BodyOf("text", NoField, NoField)]

NetResponse(status, body) ==
    [failed |-> FALSE, cause |-> "", StatusCode |-> status, Body |-> body]

\* hosts no connection can be made to
DownHosts == {"down.invalid"}

\* http.Post can reach a server only through an absolute http(s) URL
Reachable(url) ==
    LET u == Parse(url)
    IN  u.ok /\ u.Scheme \in {"http", "https"} /\ u.Host # "" /\ u.Host \notin DownHosts

\* http.Post(url, contentType, body): (resp, err), given the network's answer
\* net to a request that is sent
Post(url, net) ==
    With(Parse(url), LAMBDA u :
        LET e(cause) == NetFailure("Post \"" \o url \o "\": " \o cause)
        IN  IF ~u.ok THEN e("parse: invalid URL")
            ELSE IF u.Scheme \notin {"http", "https"}
            THEN e("unsupported protocol scheme \"" \o u.Scheme \o "\"")
            ELSE IF u.Host = "" THEN e("http: no Host in request URL")
            ELSE IF u.Host \in DownHosts
            THEN e("dial tcp: lookup " \o u.Host \o ": no such host")
            ELSE IF net.failed THEN e(net.cause)
            ELSE net)

(***************************************************************************)
(* The client: src/webhook.go.                                             *)
(***************************************************************************)
\* time.Millisecond, in nanoseconds
Millisecond == 1000000

\* baseAPI of NewWebHook and resetAPIURL
baseAPI == "https://oapi.dingtalk.com/robot/send"

\* the WebHook struct
WebHook(accessToken, apiURL, secret) ==
    [AccessToken |-> accessToken, APIURL |-> apiURL, Secret |-> secret]

\* the zero PayLoad, &PayLoad{}
PayLoad ==
    [MsgType |-> "",
     Text |-> [Content |-> ""],
     Link |-> [Title |-> "", Text |-> "", PicURL |-> "", MessageURL |-> ""],
     Markdown |-> [Title |-> "", Text |-> ""],
     ActionCard |-> [Text |-> "", Title |-> "", SingleTitle |-> "", SingleURL |-> "",
                     BtnOrientation |-> "", HideAvatar |-> "", Buttons |-> <<>>],
     FeedCard |-> [Links |-> <<>>],
     At |-> [AtMobiles |-> <<>>, IsAtAll |-> FALSE]]

\* an error value: nil, or an error with its message
Nil == [nil |-> TRUE, msg |-> ""]

Error(msg) == [nil |-> FALSE, msg |-> msg]

\* what one invocation did: whether it panicked, the error it returned, the
\* POSTs it issued (URL and body of each, in order), what http.Post returned
\* for each, and the payloads handed to sendPayload
Outcome(panicked, err, posts, resps, payloads) ==
    [panicked |-> panicked, err |-> err, posts |-> posts, resps |-> resps,
     payloads |-> payloads]

\* getSign signing the timestamp and the secret with no line feed between
getSignNoLineFeed(w, unixNano) ==
    LET timestamp == FormatInt(unixNano \div Millisecond)
        message   == timestamp \o w.Secret
    IN  <<timestamp, EncodeToString(HmacSha256(Bytes(w.Secret), Bytes(message)))>>

\* getSign: (timestamp, sha) at clock reading unixNano
getSign(w, unixNano) ==
    LET timestamp == FormatInt(unixNano \div Millisecond)
        message   == timestamp \o "\n" \o w.Secret
    IN  <<timestamp, EncodeToString(HmacSha256(Bytes(w.Secret), Bytes(message)))>>

RECURSIVE setAll(_, _, _)
\* for key, val := range params { q.Set(key, val) }, keys being the keys not
\* yet visited (the result does not depend on the order of the visit)
setAll(q, params, keys) ==
    IF keys = {} THEN q
    ELSE LET key == CHOOSE k \in keys : TRUE
         IN  setAll(Set(q, key, params[key]), params, keys \ {key})

\* addParamsToURL: [panicked, url].  url.Parse's error is dropped, so an
\* originURL that does not parse leaves u nil and reading u.RawQuery panics
\* (nil pointer dereference)
addParamsToURL(params, originURL) ==
    With(Parse(originURL), LAMBDA u :
        IF ~u.ok THEN [panicked |-> TRUE, url |-> ""]
        ELSE LET q == setAll(ParseQuery(u.RawQuery), params, DOMAIN params)
             IN  [panicked |-> FALSE,
                  url |-> String([u EXCEPT !.RawQuery = Encode(q)])])

\* resolveURL with the arguments of strings.Contains exchanged
resolveURLSwapped(w) ==
    IF Contains(w.APIURL, w.AccessToken)
    THEN [apiURL |-> w.AccessToken, params |-> NoValues]
    ELSE [apiURL |-> w.APIURL, params |-> [k \in {"access_token"} |-> w.AccessToken]]

\* sendPayload, first part: the URL the token and the base URL resolve to,
\* and the access_token parameter
resolveURL(w) ==
    IF Contains(w.AccessToken, w.APIURL)
    THEN [apiURL |-> w.AccessToken, params |-> NoValues]
    ELSE [apiURL |-> w.APIURL, params |-> [k \in {"access_token"} |-> w.AccessToken]]

\* sendPayload, second part: the timestamp and sign parameters when a secret
\* is set
signParams(w, params, unixNano) ==
    IF w.Secret # ""
    THEN LET sign == getSign(w, unixNano)
         IN  [k \in DOMAIN params \cup {"timestamp", "sign"} |->
                 IF k = "timestamp" THEN sign[1]
                 ELSE IF k = "sign" THEN sign[2]
                 ELSE params[k]]
    ELSE params

\* interpret decoding the body before it looks at the status code
interpretBodyFirst(resp) ==
    LET result == Unmarshal(resp.Body)
    IN  IF resp.failed THEN Error("api request error: " \o resp.cause)
        ELSE IF ~result.ok
        THEN Error("response struct error: response is not a json anymore, " \o result.err)
        ELSE IF 200 # resp.StatusCode
        THEN Error("api response error: " \o FormatInt(resp.StatusCode))
        ELSE IF 0 # result.ErrorCode
        THEN Error("api custom error: {code: " \o FormatInt(result.ErrorCode)
                   \o ", msg: " \o result.ErrorMessage \o "}")
        ELSE Nil

\* sendPayload, after http.Post returned: the error the caller gets
interpret(resp) ==
    LET result == Unmarshal(resp.Body)
    IN  IF resp.failed THEN Error("api request error: " \o resp.cause)
        ELSE IF 200 # resp.StatusCode
        THEN Error("api response error: " \o FormatInt(resp.StatusCode))
        ELSE IF ~result.ok
        THEN Error("response struct error: response is not a json anymore, " \o result.err)
        ELSE IF 0 # result.ErrorCode
        THEN Error("api custom error: {code: " \o FormatInt(result.ErrorCode)
                   \o ", msg: " \o result.ErrorMessage \o "}")
        ELSE Nil

\* sendPayload(payload) at clock reading unixNano, the network answering net.
\* json.Marshal keeps the payload's structure: the body is the payload.
sendPayload(w, payload, unixNano, net) ==
    With(resolveURL(w), LAMBDA r :
    With(signParams(w, r.params, unixNano), LAMBDA params :
    With(IF DOMAIN params # {} THEN addParamsToURL(params, r.apiURL)
         ELSE [panicked |-> FALSE, url |-> r.apiURL], LAMBDA built :
        IF built.panicked THEN Outcome(TRUE, Nil, <<>>, <<>>, <<payload>>)
        ELSE With(Post(built.url, net), LAMBDA resp :
                  Outcome(FALSE, interpret(resp),
                          <<[url |-> built.url, body |-> payload]>>, <<resp>>,
                          <<payload>>)))))

\* the at block of a payload
AtBlock(mobiles, isAtAll) == [AtMobiles |-> mobiles, IsAtAll |-> isAtAll]

SendTextMsg(w, content, isAtAll, mobiles, unixNano, net) ==
    sendPayload(w, [PayLoad EXCEPT !.MsgType = "text",
                                   !.Text = [Content |-> content],
                                   !.At = AtBlock(mobiles, isAtAll)],
                unixNano, net)

SendLinkMsg(w, title, content, picURL, msgURL, unixNano, net) ==
    sendPayload(w, [PayLoad EXCEPT !.MsgType = "link",
                                   !.Link = [Title |-> title, Text |-> content,
                                             PicURL |-> picURL, MessageURL |-> msgURL]],
                unixNano, net)

RECURSIVE mentionsMarkEach(_, _, _)
\* the loop never setting firstLine: a marker before every mention
mentionsMarkEach(content, mobiles, firstLine) ==
    IF Len(mobiles) = 0 THEN content
    ELSE IF MatchString(mobiles[1])
    THEN mentionsMarkEach(content \o "#####" \o " @" \o mobiles[1], Tail(mobiles), firstLine)
    ELSE mentionsMarkEach(content, Tail(mobiles), firstLine)

RECURSIVE mentions(_, _, _)
\* the loop of SendMarkdownMsg over mobiles: the content it ends with
mentions(content, mobiles, firstLine) ==
    IF Len(mobiles) = 0 THEN content
    ELSE IF MatchString(mobiles[1])
    THEN mentions(content \o (IF firstLine = FALSE THEN "#####" ELSE "")
                          \o " @" \o mobiles[1],
                  Tail(mobiles), TRUE)
    ELSE mentions(content, Tail(mobiles), firstLine)

SendMarkdownMsg(w, title, content, isAtAll, mobiles, unixNano, net) ==
    sendPayload(w, [PayLoad EXCEPT !.MsgType = "markdown",
                                   !.Markdown = [Title |-> title,
                                                 Text |-> mentions(content, mobiles, FALSE)],
                                   !.At = AtBlock(mobiles, isAtAll)],
                unixNano, net)

\* the two validations of SendActionCardMsg: the error returned before
\* anything is sent, or nil.  (Both messages end in a fullwidth exclamation
\* mark in the source, which a string of this language cannot hold.)
validateLinks(linkTitles, linkUrls) ==
    IF 0 = Len(linkTitles) \/ 0 = Len(linkUrls)
    THEN Error("links or titles is empty")
    ELSE IF Len(linkUrls) # Len(linkTitles)
    THEN Error("links length and titles length is not equal")
    ELSE Nil

SendActionCardMsg(w, title, content, linkTitles, linkUrls, hideAvatar, btnOrientation, unixNano, net) ==
    LET invalid == validateLinks(linkTitles, linkUrls)
        buttons == [i \in 1..Len(linkTitles) |->
                       [Title |-> linkTitles[i], ActionURL |-> linkUrls[i]]]
    IN  IF ~invalid.nil THEN Outcome(FALSE, invalid, <<>>, <<>>, <<>>)
        ELSE sendPayload(w,
                 [PayLoad EXCEPT !.MsgType = "actionCard",
                                 !.ActionCard.Title = title,
                                 !.ActionCard.Text = content,
                                 !.ActionCard.HideAvatar = IF hideAvatar THEN "1" ELSE "0",
                                 !.ActionCard.BtnOrientation =
                                     IF btnOrientation THEN "1" ELSE "0",
                                 !.ActionCard.Buttons = buttons],
                 unixNano, net)

SendLinkCardMsg(w, messages, unixNano, net) ==
    sendPayload(w, [PayLoad EXCEPT !.MsgType = "feedCard",
                                   !.FeedCard = [Links |-> messages]],
                unixNano, net)

(***************************************************************************)
(* The inputs.                                                             *)
(***************************************************************************)
\* access tokens: a bare token, the empty token, and full endpoint URLs
Tokens ==
    {"example-access-token", "", baseAPI \o "?already=here",
     "http://h.test/s?a=%zz&b=1&b=2&t=3"}

\* base URLs: the default, the empty one, one that does not parse, endpoints,
\* one whose host is down
APIURLs ==
    {baseAPI, "", ":", "http://h.test/s", "http://down.invalid/",
     "http://h.test/r?access_token=old&x=1"}

Secrets == {"", "SECabc"}

\* mobiles: one that regStr matches, an 11-digit number starting 145, one with
\* a letter after 15, a 10-digit number
Mobiles == {"13800138000", "14512345678", "15a12345678", "1390013900"}

RECURSIVE SeqsUpTo(_, _)
\* the sequences over S of length at most n
SeqsUpTo(S, n) ==
    IF n = 0 THEN {<<>>}
    ELSE LET shorter == SeqsUpTo(S, n - 1)
         IN  shorter \cup {Append(q, x) : q \in shorter, x \in S}

MobileLists == SeqsUpTo(Mobiles, MaxMobiles)

LinkLists == SeqsUpTo({"Baidu Search"}, MaxLinks)

URLLists == SeqsUpTo({"https://www.baidu.com"}, MaxLinks)

\* response bodies: an HTML page, {}, errcode 0, a remote error, an errcode
\* of the wrong JSON type
Bodies ==
    {BodyOf("text", NoField, NoField),
     BodyOf("object", NoField, NoField),
     BodyOf("object", JSONField("int", 0, ""), JSONField("string", 0, "ok")),
     BodyOf("object", JSONField("int", 300001, ""), JSONField("string", 0, "token is not exist")),
     BodyOf("object", JSONField("string", 0, "0"), JSONField("string", 0, "ok"))}

\* what the network may answer: no connection, a page or a JSON reply that
\* was not found, or any body with status 200
Network ==
    {NetFailure("dial tcp: connection refused"),
     NetResponse(404, BodyOf("text", NoField, NoField)),
     NetResponse(404, BodyOf("object", JSONField("int", 0, ""), JSONField("string", 0, "ok")))}
    \cup {NetResponse(200, body) : body \in Bodies}

(***************************************************************************)
(* The state: the client w, the clock, and the latest invocation (which    *)
(* method, with which arguments, to what outcome) until its caller has     *)
(* taken the result.  A panic ends the program.                            *)
(***************************************************************************)
VARIABLES w, now, pc, method, args, out

vars == <<w, now, pc, method, args, out>>

Args(title, content, isAtAll, mobiles, linkTitles, linkUrls) ==
    [title |-> title, content |-> content, isAtAll |-> isAtAll, mobiles |-> mobiles,
     linkTitles |-> linkTitles, linkUrls |-> linkUrls]

NoArgs == Args("", "", FALSE, <<>>, <<>>, <<>>)

NoOutcome == Outcome(FALSE, Nil, <<>>, <<>>, <<>>)

Init ==
    /\ w \in {WebHook(t, baseAPI, "") : t \in Tokens}
    /\ now = StartMs * Millisecond + Millisecond \div 2
    /\ pc = "idle"
    /\ method = ""
    /\ args = NoArgs
    /\ out = NoOutcome

\* webHook = NewWebHook(accessToken)
NewWebHook ==
    /\ pc = "idle"
    /\ \E accessToken \in Tokens : w' = WebHook(accessToken, baseAPI, "")
    /\ UNCHANGED <<now, pc, method, args, out>>

\* webHook.resetAPIURL()
resetAPIURL ==
    /\ pc = "idle"
    /\ w' = [w EXCEPT !.APIURL = baseAPI]
    /\ UNCHANGED <<now, pc, method, args, out>>

\* webHook.APIURL = ...
SetAPIURL ==
    /\ pc = "idle"
    /\ \E u \in APIURLs : w' = [w EXCEPT !.APIURL = u]
    /\ UNCHANGED <<now, pc, method, args, out>>

\* webHook.AccessToken = ...
SetAccessToken ==
    /\ pc = "idle"
    /\ \E t \in Tokens : w' = [w EXCEPT !.AccessToken = t]
    /\ UNCHANGED <<now, pc, method, args, out>>

\* webHook.Secret = ...
SetSecret ==
    /\ pc = "idle"
    /\ \E s \in Secrets : w' = [w EXCEPT !.Secret = s]
    /\ UNCHANGED <<now, pc, method, args, out>>

\* time passes
Tick ==
    /\ pc = "idle"
    /\ now < MaxNowMs * Millisecond
    /\ now' = now + Millisecond \div 2
    /\ UNCHANGED <<w, pc, method, args, out>>

\* the invocation of method m with arguments a ended with outcome o
Ended(m, a, o) ==
    /\ pc' = IF o.panicked THEN "panicked" ELSE "returned"
    /\ method' = m
    /\ args' = a
    /\ out' = o

\* err = webHook.sendPayload(&PayLoad{})
CallSendPayload ==
    /\ pc = "idle"
    /\ \E net \in Network :
        \E o \in {sendPayload(w, PayLoad, now, net)} :
            Ended("sendPayload", NoArgs, o)
    /\ UNCHANGED <<w, now>>

CallSendTextMsg ==
    /\ pc = "idle"
    /\ \E net \in Network, isAtAll \in BOOLEAN, mobiles \in SeqsUpTo({""}, 1) :
        \E o \in {SendTextMsg(w, "Test text message", isAtAll, mobiles, now, net)} :
            Ended("SendTextMsg", Args("", "Test text message", isAtAll, mobiles, <<>>, <<>>), o)
    /\ UNCHANGED <<w, now>>

CallSendLinkMsg ==
    /\ pc = "idle"
    /\ \E net \in Network :
        \E o \in {SendLinkMsg(w, "A link message", "Click me", "", "https://www.baidu.com", now, net)} :
            Ended("SendLinkMsg", Args("A link message", "Click me", FALSE, <<>>, <<>>, <<>>), o)
    /\ UNCHANGED <<w, now>>

CallSendMarkdownMsg ==
    /\ pc = "idle"
    /\ \E net \in Network, mobiles \in MobileLists, content \in {"# T \n > Hello"} :
        \E o \in {SendMarkdownMsg(w, "A markdown message", content, FALSE, mobiles, now, net)} :
            Ended("SendMarkdownMsg",
                  Args("A markdown message", content, FALSE, mobiles, <<>>, <<>>), o)
    /\ UNCHANGED <<w, now>>

CallSendActionCardMsg ==
    /\ pc = "idle"
    /\ \E net \in Network, linkTitles \in LinkLists, linkUrls \in URLLists :
        \E o \in {SendActionCardMsg(w, "A action card message", "This is a action card message", linkTitles, linkUrls, TRUE, TRUE, now, net)} :
            Ended("SendActionCardMsg",
                  Args("A action card message", "This is a action card message", FALSE, <<>>,
                       linkTitles, linkUrls), o)
    /\ UNCHANGED <<w, now>>

CallSendLinkCardMsg ==
    /\ pc = "idle"
    /\ \E net \in Network :
        \E o \in {SendLinkCardMsg(w, <<[Title |-> "Hello Bob", MessageURL |-> "https://www.google.com", PicURL |-> ""]>>, now, net)} :
            Ended("SendLinkCardMsg", NoArgs, o)
    /\ UNCHANGED <<w, now>>

\* the caller has the error; the client is idle again
Return ==
    /\ pc = "returned"
    /\ pc' = "idle"
    /\ method' = ""
    /\ args' = NoArgs
    /\ out' = NoOutcome
    /\ UNCHANGED <<w, now>>

Next ==
    \/ NewWebHook
    \/ resetAPIURL
    \/ SetAPIURL
    \/ SetAccessToken
    \/ SetSecret
    \/ Tick
    \/ CallSendPayload
    \/ CallSendTextMsg
    \/ CallSendLinkMsg
    \/ CallSendMarkdownMsg
    \/ CallSendActionCardMsg
    \/ CallSendLinkCardMsg
    \/ Return

Spec == Init /\ [][Next]_vars

(***************************************************************************)
(* What the claims are stated with.                                        *)
(***************************************************************************)
\* an invocation has ended (returned or panicked) and its caller has not yet
\* taken the result
Invoked == pc # "idle"

\* the invocation returned after issuing its POST
Posted == pc = "returned" /\ Len(out.posts) = 1

\* the URL of the POST, and what http.Post returned for it
PostURL == out.posts[1].url

PostResult == out.resps[1]

\* the text before the first "?" of a URL, and the text after it
BeforeQuery(url) == Cut(url, "?")[1]

AfterQuery(url) == Cut(url, "?")[2]

\* the query parameters a server reads from a URL
QueryOf(url) == ParseQuery(AfterQuery(url))

\* the token already holds the base URL: the token is the endpoint
TokenIsURL == Contains(w.AccessToken, w.APIURL)

\* the URL sendPayload starts from, and the parameters it sets on it
OriginURL == IF TokenIsURL THEN w.AccessToken ELSE w.APIURL

SetKeys ==
    (IF TokenIsURL THEN {} ELSE {"access_token"})
    \cup (IF w.Secret # "" THEN {"timestamp", "sign"} ELSE {})

\* the kinds of error
TransportError(err) == ~err.nil /\ HasPrefix(err.msg, "api request error: ")

HTTPStatusError(err) == ~err.nil /\ HasPrefix(err.msg, "api response error: ")

MalformedResponseError(err) == ~err.nil /\ HasPrefix(err.msg, "response struct error: ")

RemoteAPIError(err) == ~err.nil /\ HasPrefix(err.msg, "api custom error: ")

ValidationEmpty(err) == ~err.nil /\ HasPrefix(err.msg, "links or titles is empty")

ValidationMismatch(err) ==
    ~err.nil /\ HasPrefix(err.msg, "links length and titles length is not equal")

(***************************************************************************)
(* C1                                                                      *)
(***************************************************************************)
\* C1: sendPayload classifies what its POST returned in a fixed order: a failed
\* call gives the transport error; else a status other than 200 gives the
\* status error with that code, whatever the body; else a body that does not
\* parse gives the malformed-response error; else a non-zero errcode gives the
\* remote error with that code and message; nil is returned exactly when the
\* call succeeded with status 200, a body that parsed and errcode 0.
C1_Precedence ==
    Posted =>
        LET resp   == PostResult
            result == Unmarshal(resp.Body)
            is200  == ~resp.failed /\ resp.StatusCode = 200
        IN  /\ resp.failed => TransportError(out.err)
            /\ (~resp.failed /\ resp.StatusCode # 200) =>
                   out.err = Error("api response error: " \o FormatInt(resp.StatusCode))
            /\ (is200 /\ ~result.ok) => MalformedResponseError(out.err)
            /\ (is200 /\ result.ok /\ result.ErrorCode # 0) =>
                   /\ RemoteAPIError(out.err)
                   /\ Contains(out.err.msg, "code: " \o FormatInt(result.ErrorCode) \o ",")
                   /\ Contains(out.err.msg, "msg: " \o result.ErrorMessage \o "}")
            /\ out.err.nil <=> (is200 /\ result.ok /\ result.ErrorCode = 0)

\* a 404 whose body is valid JSON with errcode 0 was answered with the status
\* error
C1_Witness ==
    /\ Posted
    /\ ~PostResult.failed
    /\ PostResult.StatusCode = 404
    /\ Unmarshal(PostResult.Body).ok
    /\ HTTPStatusError(out.err)

(***************************************************************************)
(* C2                                                                      *)
(***************************************************************************)
\* C2: sendPayload called with a base API URL that is invalid (it does not
\* parse, or is no absolute http(s) URL) or unreachable returns the transport
\* error, whatever the token and the secret; it ends in no other way: no
\* success, no other error, no panic.
C2_BadBaseIsTransportError ==
    (Invoked /\ Len(out.payloads) = 1 /\ ~Reachable(w.APIURL)) =>
        (pc = "returned" /\ TransportError(out.err))

(***************************************************************************)
(* C3                                                                      *)
(***************************************************************************)
\* C3: when the token contains the base URL (an empty base URL included) the
\* POST goes to the token's own URL and no access_token parameter is added to
\* it, and without a secret the POST goes to exactly the token string;
\* otherwise the POST goes to the base URL with access_token set to the token
\* (an empty token included).
C3_URLResolution ==
    Posted =>
        IF Contains(w.AccessToken, w.APIURL)
        THEN /\ BeforeQuery(PostURL) = BeforeQuery(w.AccessToken)
             /\ "access_token" \in DOMAIN QueryOf(PostURL)
                    <=> "access_token" \in DOMAIN QueryOf(w.AccessToken)
             /\ w.Secret = "" => PostURL = w.AccessToken
        ELSE /\ BeforeQuery(PostURL) = BeforeQuery(w.APIURL)
             /\ "access_token" \in DOMAIN QueryOf(PostURL)
             /\ QueryOf(PostURL)["access_token"] = <<w.AccessToken>>

\* the URL-override scenario: no secret, the token is the base URL followed by
\* "?already=here", and the POST went to the token string
C3_Witness ==
    /\ Posted
    /\ w.Secret = ""
    /\ w.APIURL # ""
    /\ w.AccessToken = w.APIURL \o "?already=here"
    /\ PostURL = w.AccessToken

(***************************************************************************)
(* C4                                                                      *)
(***************************************************************************)
\* C4: with a secret the URL of the POST carries timestamp and sign (and
\* access_token on the bare-token path); timestamp is the clock's millisecond
\* reading in base 10, and sign is the base64 of the HMAC-SHA256, keyed by the
\* secret, of that same timestamp, a line feed and the secret.  Without a
\* secret the URL carries no timestamp or sign that it did not have before.
C4_Signing ==
    Posted =>
        LET q == QueryOf(PostURL)
        IN  IF w.Secret # ""
            THEN /\ {"timestamp", "sign"} \subseteq DOMAIN q
                 /\ q["timestamp"] = <<FormatInt(now \div Millisecond)>>
                 /\ q["sign"] =
                        <<EncodeToString(HmacSha256(Bytes(w.Secret),
                              Bytes(q["timestamp"][1] \o "\n" \o w.Secret)))>>
                 /\ ~TokenIsURL =>
                        /\ "access_token" \in DOMAIN q
                        /\ q["access_token"] = <<w.AccessToken>>
            ELSE \A k \in {"timestamp", "sign"} :
                     k \in DOMAIN q <=> k \in DOMAIN QueryOf(OriginURL)

\* a signed POST on the bare-token path: all three parameters are in the URL
C4_Witness ==
    /\ Posted
    /\ w.Secret # ""
    /\ ~TokenIsURL
    /\ {"access_token", "timestamp", "sign"} \subseteq DOMAIN QueryOf(PostURL)

(***************************************************************************)
(* C5                                                                      *)
(***************************************************************************)
\* the "&"-separated pairs of the POST URL's query string, in order
PostPairs == Split(AfterQuery(PostURL), "&")

\* the two pairs signing adds, as they are written in the URL
TimestampPair == "timestamp=" \o FormatInt(now \div Millisecond)

SignPair == "sign=" \o QueryEscape(getSign(w, now)[2])

\* C5 as claimed: a signed URL contains timestamp=<timestamp> immediately
\* followed by &sign=<urlencoded signature>.
C5_TimestampThenSign ==
    (Posted /\ w.Secret # "") => Contains(PostURL, TimestampPair \o "&" \o SignPair)

\* C5 as amended: a signed URL carries sign=<urlencoded signature> and, after
\* it, timestamp=<timestamp>, each once, the query being written in increasing
\* key order; the two are contiguous, as sign=...&timestamp=..., unless the URL
\* already had a parameter whose key lies between "sign" and "timestamp".
C5_SignThenTimestamp ==
    (Posted /\ w.Secret # "") =>
        LET at(pair) == {i \in 1..Len(PostPairs) : PostPairs[i] = pair}
            between  == {k \in DOMAIN QueryOf(OriginURL) :
                            StrLess("sign", k) /\ StrLess(k, "timestamp")}
        IN  /\ Cardinality(at(SignPair)) = 1
            /\ Cardinality(at(TimestampPair)) = 1
            /\ \A i \in at(SignPair), j \in at(TimestampPair) : i < j
            /\ between = {} => Contains(PostURL, SignPair \o "&" \o TimestampPair)

\* a signed POST whose URL holds sign=...&timestamp=... contiguously, the
\* signature having needed escaping
C5_Witness ==
    /\ Posted
    /\ w.Secret # ""
    /\ Contains(PostURL, SignPair \o "&" \o TimestampPair)
    /\ Contains(SignPair, "%")

(***************************************************************************)
(* C6                                                                      *)
(***************************************************************************)
\* C6: SendActionCardMsg fails with the "empty" error when both lists are
\* empty, with the "length mismatch" error when the lists differ in length
\* (exactly one of them being empty included), and hands the payload to
\* sendPayload with no validation error when both are non-empty and of equal
\* length.
C6_ValidationKinds ==
    (Invoked /\ method = "SendActionCardMsg") =>
        LET nt == Len(args.linkTitles)
            nu == Len(args.linkUrls)
        IN  /\ (nt = 0 /\ nu = 0) => ValidationEmpty(out.err)
            /\ nt # nu => ValidationMismatch(out.err)
            /\ (nt = nu /\ nt > 0) =>
                   /\ Len(out.payloads) = 1
                   /\ ~ValidationEmpty(out.err)
                   /\ ~ValidationMismatch(out.err)

(***************************************************************************)
(* C7                                                                      *)
(***************************************************************************)
\* C7: an invocation of a send method issues no POST when SendActionCardMsg
\* returns a validation error, and exactly one POST in every other case.
C7_OnePost ==
    (Invoked /\ method # "sendPayload") =>
        IF ValidationEmpty(out.err) \/ ValidationMismatch(out.err)
        THEN Len(out.posts) = 0
        ELSE Len(out.posts) = 1

(***************************************************************************)
(* C8                                                                      *)
(***************************************************************************)
RECURSIVE Concat(_)
\* the strings of a sequence, one after the other
Concat(strs) == IF Len(strs) = 0 THEN "" ELSE strs[1] \o Concat(Tail(strs))

\* C8: the markdown text handed to sendPayload is the content, then one
\* "#####" if some mobile matches the pattern, then " @<mobile>" for each
\* matching mobile in argument order; atMobiles is the whole argument list.
C8_MarkdownMentions ==
    (Invoked /\ method = "SendMarkdownMsg") =>
        LET matching == SelectSeq(args.mobiles, MatchString)
            appended == [i \in 1..Len(matching) |-> " @" \o matching[i]]
            payload  == out.payloads[1]
        IN  /\ Len(out.payloads) = 1
            /\ payload.Markdown.Text =
                   args.content \o (IF Len(matching) > 0 THEN "#####" ELSE "")
                                \o Concat(appended)
            /\ payload.At.AtMobiles = args.mobiles
            /\ Len(matching) = 0 => payload.Markdown.Text = args.content
            /\ Posted => out.posts[1].body = payload

\* a markdown message with two matching mobiles and one marker
C8_Witness ==
    /\ Invoked
    /\ method = "SendMarkdownMsg"
    /\ Len(args.mobiles) = 2
    /\ \A i \in 1..2 : MatchString(args.mobiles[i])
    /\ args.mobiles[1] # args.mobiles[2]
    /\ out.payloads[1].Markdown.Text =
           args.content \o "#####" \o " @" \o args.mobiles[1] \o " @" \o args.mobiles[2]

(***************************************************************************)
(* C9                                                                      *)
(***************************************************************************)
\* the pattern as the specification words it: 11 decimal digits, the first 1,
\* the second one of 3 to 9, 5 or 7 after 14, not 4 after 15
MobileAsSpecified(m) ==
    /\ Len(m) = 11
    /\ \A i \in 1..Len(m) : IsDigit(At(m, i))
    /\ At(m, 1) = "1"
    /\ At(m, 2) \in {"3", "4", "5", "6", "7", "8", "9"}
    /\ At(m, 2) = "4" => At(m, 3) \in {"5", "7"}
    /\ At(m, 2) = "5" => At(m, 3) # "4"

\* C9: SendMarkdownMsg mentions a mobile inline exactly when the mobile is as
\* the specification words the pattern; no string with a non-digit character
\* is mentioned.  (No mobile of the inputs is part of another, and the content
\* holds no "@".)
C9_PatternAsSpecified ==
    (Invoked /\ method = "SendMarkdownMsg") =>
        \A i \in 1..Len(args.mobiles) :
            Contains(out.payloads[1].Markdown.Text, " @" \o args.mobiles[i])
                <=> MobileAsSpecified(args.mobiles[i])

(***************************************************************************)
(* C10                                                                     *)
(***************************************************************************)
\* the keys written in a query string, as they stand there
WrittenKeys(query) ==
    LET pairs == Split(query, "&")
    IN  {Cut(pairs[i], "=")[1] : i \in {j \in 1..Len(pairs) : pairs[j] # ""}}

\* C10: when the URL sendPayload starts from has a query string and parameters
\* are set on it, every parameter written there under a key that is not being
\* set is still there afterwards, with the same values; every key being set
\* has exactly the one value set; nothing else is added.
C10_MergePreserves ==
    (Posted /\ SetKeys # {} /\ Contains(OriginURL, "?")) =>
        LET before == QueryOf(OriginURL)
            after  == QueryOf(PostURL)
            params == signParams(w, resolveURL(w).params, now)
        IN  /\ \A k \in WrittenKeys(AfterQuery(OriginURL)) \ SetKeys :
                   k \in WrittenKeys(AfterQuery(PostURL))
            /\ \A k \in DOMAIN before \ SetKeys : k \in DOMAIN after /\ after[k] = before[k]
            /\ \A k \in SetKeys : k \in DOMAIN after /\ after[k] = <<params[k]>>
            /\ DOMAIN after \subseteq DOMAIN before \cup SetKeys

=============================================================================
